---- MODULE Spec2Model ----
(***************************************************************************)
(* A model of dtRemoteSensing: the catalogue client and the download       *)
(* orchestrator of dtSat/dtSat.py, and the directory layout manager, the   *)
(* input/output staging and the batch invoker of dtAcolite/dtAcolite.py.   *)
(*                                                                         *)
(* Each function of the source is a small process: its arguments and the   *)
(* environment it runs in (remote server, filesystem) are chosen in the    *)
(* initial state, and each step of the function is one action.  The four   *)
(* functions groups have their own specification (SpecCat, SpecDl, SpecFS, *)
(* SpecBatch); the variables of the other groups are parked.               *)
(*                                                                         *)
(* A file name is the sequence of its dot-free parts: "A.SAFE.zip" is      *)
(* <<"A", "SAFE", "zip">>, so that str.split(".") and str.endswith(".zip") *)
(* are computed, not assumed.  A path is a sequence of file names.         *)
(***************************************************************************)
EXTENDS Integers, Sequences, FiniteSets, TLC

VARIABLES
    cat_in,        \* get_sentinel_catalogue: arguments and the server's page chain
    cat_pc,        \* get_sentinel_catalogue: position in the function
    cat_requests,  \* get_sentinel_catalogue: the URLs requested so far, in order
    cat_results,   \* get_sentinel_catalogue: the local variable `results`
    dl_in,         \* data_sentinel_request: arguments and the directory at call time
    dl_pc,         \* data_sentinel_request: position in the function
    dl_i,          \* data_sentinel_request: index of the tile the loop is at
    dl_dir,        \* the destination directory: does it exist, its files' contents
    dl_files_in_dir, \* data_sentinel_request: the local variable `files_in_dir`
    dl_token,      \* the access token in the session's Authorization header
    dl_response,   \* data_sentinel_request: the local variable `data_response`
    dl_trace,      \* requests and messages of the tile the loop is at (or was at last)
    dl_requested,  \* the Ids a download request was issued for, so far
    dl_refreshes,  \* refresh-token responses received so far
    fs_in,         \* the pipeline's arguments: base_dir, collection, year
    fs,            \* the filesystem: the directories and the files that exist
    fs_cfg,        \* the pipeline's app_configuration (configure's last return)
    fs_filenames,  \* the pipeline's inputfilenames (create_acolite_input's last return)
    fs_uploads,    \* the objects put to the bucket so far
    fs_last,       \* the most recent call: what, its return, filesystem before/after
    fs_prev,       \* the call before it
    b_in,          \* acolite_batch_run: arguments, and where the routine fails
    b_pc,          \* acolite_batch_run: position in the function
    b_i,           \* acolite_batch_run: the loop variable i (-1: not bound)
    b_settings,    \* acolite_batch_run: the settings mapping
    b_calls,       \* the invocations of acolite_run so far: the settings each saw
    uz_in,         \* unzip_inputfiles: the directories and the archives' contents
    uz_pc,         \* unzip_inputfiles: position in the function
    uz_out,        \* the entries of the destination directory
    uz_scenes,     \* unzip_inputfiles: raw_scenes still to extract, as file names
    uz_log,        \* the archives this call has extracted, in order
    uz_call,       \* which call of unzip_inputfiles this is (1, 2, ..)
    uz_at_call,    \* the listing of the destination directory when the call began
    tk_in,         \* get_copernicus_access_token: arguments, the server's answer
    tk_pc,         \* get_copernicus_access_token: position in the function
    tk_requests,   \* the token requests posted so far: their form data
    tk_file,       \* the token file: absent, or the JSON written to it
    tk_ret,        \* what get_copernicus_access_token returned
    fl_in,         \* extract_* / filter_by_*: the arguments
    fl_pc,         \* extract_* / filter_by_*: called or not yet
    fl_ret         \* extract_* / filter_by_*: the values returned

catvars == <<cat_in, cat_pc, cat_requests, cat_results>>

dlvars == <<dl_in, dl_pc, dl_i, dl_dir, dl_files_in_dir, dl_token, dl_response,
            dl_trace, dl_requested, dl_refreshes>>

fsvars == <<fs_in, fs, fs_cfg, fs_filenames, fs_uploads, fs_last, fs_prev>>

batchvars == <<b_in, b_pc, b_i, b_settings, b_calls>>

unzipvars == <<uz_in, uz_pc, uz_out, uz_scenes, uz_log, uz_call, uz_at_call>>

tokenvars == <<tk_in, tk_pc, tk_requests, tk_file, tk_ret>>

filtervars == <<fl_in, fl_pc, fl_ret>>

vars == <<catvars, dlvars, fsvars, batchvars, unzipvars, tokenvars, filtervars>>

notcat == <<dlvars, fsvars, batchvars, unzipvars, tokenvars, filtervars>>
notdl == <<catvars, fsvars, batchvars, unzipvars, tokenvars, filtervars>>
notfs == <<catvars, dlvars, batchvars, unzipvars, tokenvars, filtervars>>
notbatch == <<catvars, dlvars, fsvars, unzipvars, tokenvars, filtervars>>
notunzip == <<catvars, dlvars, fsvars, batchvars, tokenvars, filtervars>>
nottoken == <<catvars, dlvars, fsvars, batchvars, unzipvars, filtervars>>
notfilter == <<catvars, dlvars, fsvars, batchvars, unzipvars, tokenvars>>

\* The value of the variables of a function that is not running.
Parked == "parked"

CatParked == cat_in = Parked /\ cat_pc = Parked /\ cat_requests = Parked /\ cat_results = Parked

DlParked ==
    /\ dl_in = Parked /\ dl_pc = Parked /\ dl_i = Parked /\ dl_dir = Parked
    /\ dl_files_in_dir = Parked /\ dl_token = Parked /\ dl_response = Parked
    /\ dl_trace = Parked /\ dl_requested = Parked /\ dl_refreshes = Parked

FsParked ==
    /\ fs_in = Parked /\ fs = Parked /\ fs_cfg = Parked /\ fs_filenames = Parked
    /\ fs_uploads = Parked /\ fs_last = Parked /\ fs_prev = Parked

BatchParked ==
    /\ b_in = Parked /\ b_pc = Parked /\ b_i = Parked /\ b_settings = Parked
    /\ b_calls = Parked

UnzipParked ==
    /\ uz_in = Parked /\ uz_pc = Parked /\ uz_out = Parked /\ uz_scenes = Parked
    /\ uz_log = Parked /\ uz_call = Parked /\ uz_at_call = Parked

TokenParked ==
    /\ tk_in = Parked /\ tk_pc = Parked /\ tk_requests = Parked /\ tk_file = Parked
    /\ tk_ret = Parked

FilterParked == fl_in = Parked /\ fl_pc = Parked /\ fl_ret = Parked

(***************************************************************************)
(* Bounds of the model.                                                    *)
(***************************************************************************)
MaxPages == 3      \* longest chain of catalogue pages the server serves
MaxPageLen == 2    \* most entries in the 'value' list of one page
MaxTiles == 2      \* most tiles in the catalogue response given to the download
MaxBatch == 3      \* longest input / output list given to the batch run
MaxPre == 1        \* most directories made (with their parents) before the pipeline runs
MaxObst == 2       \* most files lying in the tree before the pipeline runs

(***************************************************************************)
(* Generic helpers.                                                        *)
(***************************************************************************)
RECURSIVE SumSeq(_)
SumSeq(s) == IF s = <<>> THEN 0 ELSE Head(s) + SumSeq(Tail(s))

SeqsUpTo(S, n) == UNION {[1..k -> S] : k \in 0..n}

(***************************************************************************)
(* dtSat.get_sentinel_catalogue                                            *)
(***************************************************************************)

\* start_date / end_date strings "Y-M-D", as the triple of their numbers.
DateStrings ==
    {<<2021, 12, 31>>, <<2022, 6, 1>>, <<2022, 6, 10>>, <<2022, 2, 30>>}

IsLeap(y) == (y % 4 = 0 /\ y % 100 # 0) \/ y % 400 = 0

DaysInMonth(y, m) ==
    IF m = 2 THEN (IF IsLeap(y) THEN 29 ELSE 28)
    ELSE IF m \in {4, 6, 9, 11} THEN 30 ELSE 31

\* datetime.datetime.strptime(s, "%Y-%m-%d") succeeds (else ValueError).
StrptimeOk(s) ==
    /\ s[1] \in 1..9999
    /\ s[2] \in 1..12
    /\ s[3] \in 1..DaysInMonth(s[1], s[2])

\* date.__gt__: a > b, lexicographic on (year, month, day).
DateGt(a, b) ==
    \/ a[1] > b[1]
    \/ a[1] = b[1] /\ a[2] > b[2]
    \/ a[1] = b[1] /\ a[2] = b[2] /\ a[3] > b[3]

\* assert end_date_dt > start_date_dt
DateRangeOkLoose(s, e) == ~DateGt(s, e)
DateRangeOk(s, e) == DateGt(e, s)

copernicus_catalogue == {"SENTINEL-2", "SENTINEL-3", "LANDSAT-8"}
copernicus_catalogue_more == copernicus_catalogue \cup {"SENTINEL-1"}

\* assert data_collection in copernicus_catalogue
CollectionOkMore(c) == c \in copernicus_catalogue_more
CollectionOk(c) == c \in copernicus_catalogue

DataCollections == copernicus_catalogue \cup {"SENTINEL-1"}

\* max_results: None, or a number.
MaxResultsArgs ==
    {[given |-> FALSE, n |-> 0], [given |-> TRUE, n |-> 1000],
     [given |-> TRUE, n |-> 1001]}

TopLimit == 1000

\* The '&$top=' suffix of the query: 0 when none is appended.
TopOf(mr) == IF mr.given /\ mr.n > 0 /\ mr.n <= TopLimit THEN mr.n ELSE 0

\* The filtered OData query URL.
EndpointUrl(in) ==
    <<"Products", in.data_collection, in.start_date, in.end_date, TopOf(in.max_results)>>

\* The URL carried by the '@odata.nextLink' of page k-1: it names page k.
NextLinkUrl(k) == <<"nextLink", k>>

\* The server: the JSON of page k of a chain (a sequence of 'value' lengths).
\* Every page but the last carries '@odata.nextLink'.
PageJson(chain, k) ==
    IF k < Len(chain)
    THEN [value |-> [i \in 1..chain[k] |-> <<k, i>>], nextLink |-> NextLinkUrl(k + 1)]
    ELSE [value |-> [i \in 1..chain[k] |-> <<k, i>>]]

\* requests.get(url).json()
ServerGet(chain, url) ==
    IF url[1] = "Products" THEN PageJson(chain, 1) ELSE PageJson(chain, url[2])

PageChains == UNION {[1..k -> 0..MaxPageLen] : k \in 1..MaxPages}

\* while '@odata.nextLink' in results
HasNextLinkNonEmpty(results) == "nextLink" \in DOMAIN results /\ Len(results.value) > 0
HasNextLink(results) == "nextLink" \in DOMAIN results

NoResults == [unbound |-> TRUE]

InitCat ==
    /\ cat_in \in [start_date : DateStrings, end_date : DateStrings,
                   data_collection : DataCollections,
                   max_results : MaxResultsArgs, chain : PageChains]
    /\ cat_pc = "validate"
    /\ cat_requests = <<>>
    /\ cat_results = NoResults
    /\ DlParked /\ FsParked /\ BatchParked
    /\ UnzipParked /\ TokenParked /\ FilterParked

\* Lines 85-93: strptime of both dates and the two asserts.
CatValidate ==
    /\ cat_pc = "validate"
    /\ cat_pc' = IF /\ StrptimeOk(cat_in.start_date)
                    /\ StrptimeOk(cat_in.end_date)
                    /\ DateRangeOk(cat_in.start_date, cat_in.end_date)
                    /\ CollectionOk(cat_in.data_collection)
                 THEN "request" ELSE "raised"
    /\ UNCHANGED <<cat_in, cat_requests, cat_results, notcat>>

\* Lines 105-112: the first request; a failing request is re-raised.
CatFirstRequest ==
    /\ cat_pc = "request"
    /\ cat_requests' = Append(cat_requests, EndpointUrl(cat_in))
    /\ \/ /\ cat_results' = ServerGet(cat_in.chain, EndpointUrl(cat_in))
          /\ cat_pc' = "loop"
       \/ /\ cat_results' = cat_results
          /\ cat_pc' = "raised"
    /\ UNCHANGED <<cat_in, notcat>>

\* Lines 114-117: one turn of the while loop.
CatFollowNext ==
    /\ cat_pc = "loop"
    /\ HasNextLink(cat_results)
    /\ cat_requests' = Append(cat_requests, cat_results.nextLink)
    /\ cat_results' = ServerGet(cat_in.chain, cat_results.nextLink)
    /\ UNCHANGED <<cat_in, cat_pc, notcat>>

\* Line 120: return results.
CatReturn ==
    /\ cat_pc = "loop"
    /\ ~HasNextLink(cat_results)
    /\ cat_pc' = "returned"
    /\ UNCHANGED <<cat_in, cat_requests, cat_results, notcat>>

NextCat == CatValidate \/ CatFirstRequest \/ CatFollowNext \/ CatReturn

SpecCat == InitCat /\ [][NextCat]_vars

\* The function runs on one thread to its end: a step that can be taken is taken.
FairSpecCat == SpecCat /\ WF_vars(NextCat)

(***************************************************************************)
(* Claims about get_sentinel_catalogue.                                    *)
(***************************************************************************)

CatDatesParse == StrptimeOk(cat_in.start_date) /\ StrptimeOk(cat_in.end_date)

\* C3 (as claimed): when the first page carries a next-page link, the returned
\* result's 'value' list is as long as the 'value' lists of all the pages of
\* the chain together.
C3_ReturnedValueIsSumOfPages ==
    (cat_pc = "returned" /\ Len(cat_in.chain) > 1)
        => Len(cat_results.value) = SumSeq(cat_in.chain)

\* C4, the state part: the k-th request is the request for page k of the
\* chain (the query, then the link each page carries), never more requests
\* than pages; inside the loop `results` is the page most recently received;
\* the function has returned only after the last page, which carries no link.
C4_RequestsFollowChain ==
    /\ Len(cat_requests) <= Len(cat_in.chain)
    /\ \A k \in 1..Len(cat_requests) :
          cat_requests[k] = IF k = 1 THEN EndpointUrl(cat_in) ELSE <<"nextLink", k>>
    /\ cat_pc = "loop" => cat_results = PageJson(cat_in.chain, Len(cat_requests))
    /\ cat_pc = "returned" =>
          /\ Len(cat_requests) = Len(cat_in.chain)
          /\ "nextLink" \notin DOMAIN cat_results

\* C4, the step part: inside the loop a request is issued only while the
\* page most recently received carries a next-page link, and the function
\* returns only from a page without one.
C4_StepFollowsLink ==
    /\ (cat_pc = "loop" /\ cat_requests' # cat_requests)
          => "nextLink" \in DOMAIN cat_results
    /\ (cat_pc = "loop" /\ cat_pc' = "returned")
          => "nextLink" \notin DOMAIN cat_results

\* C4: get_sentinel_catalogue issues exactly one request per page of the
\* chain, a follow-up request only while the latest page carries a next-page
\* link and none after a page without it, and it ends (returns, or raises on
\* a failed request or invalid arguments) on every finite chain.
C4_OneRequestPerPage ==
    /\ []C4_RequestsFollowChain
    /\ [][C4_StepFollowsLink]_vars
    /\ <>(cat_pc \in {"returned", "raised"})

C4_Witness ==
    /\ cat_pc = "returned"
    /\ Len(cat_in.chain) = MaxPages
    /\ Len(cat_requests) = MaxPages
    /\ cat_in.chain[1] = 0

\* C6: with two dates that parse and end_date <= start_date the function
\* never gets past its argument checks: it raises, and no request is issued.
C6_RaisesBeforeRequest ==
    (CatDatesParse /\ ~DateGt(cat_in.end_date, cat_in.start_date))
        => (cat_pc \in {"validate", "raised"} /\ cat_requests = <<>>)

C6_Witness ==
    /\ CatDatesParse
    /\ cat_in.end_date = cat_in.start_date
    /\ CollectionOk(cat_in.data_collection)
    /\ cat_pc = "raised"
    /\ cat_requests = <<>>

\* C7: with a valid date range and a data_collection outside SENTINEL-2,
\* SENTINEL-3 and LANDSAT-8 the function raises and issues no request.
C7_UnsupportedCollectionRaises ==
    (/\ CatDatesParse
     /\ DateGt(cat_in.end_date, cat_in.start_date)
     /\ cat_in.data_collection \notin {"SENTINEL-2", "SENTINEL-3", "LANDSAT-8"})
        => (cat_pc \in {"validate", "raised"} /\ cat_requests = <<>>)

C7_Witness ==
    /\ CatDatesParse
    /\ DateGt(cat_in.end_date, cat_in.start_date)
    /\ cat_in.data_collection = "SENTINEL-1"
    /\ cat_pc = "raised"
    /\ cat_requests = <<>>

(***************************************************************************)
(* dtSat.data_sentinel_request                                             *)
(***************************************************************************)

\* Tile names of the catalogue response; "A.SAFE" has a dot in it.
TileNames == {<<"A">>, <<"B">>, <<"A", "SAFE">>}

\* tile['Name'] + ".zip"
ZipName(name) == Append(name, "zip")

\* file.endswith(".zip")
EndsWithDotZip(file) == Len(file) >= 2 /\ file[Len(file)] = "zip"

\* file.split(".")[0]
SplitDotFirst(file) == <<file[1]>>

\* [file.split(".")[0] for file in os.listdir(dir_path) if file.endswith(".zip")]
FilesInDir(listing) == {SplitDotFirst(f) : f \in {g \in listing : EndsWithDotZip(g)}}

\* if tile["Name"] in files_in_dir
AlreadyDownloaded(name, files_in_dir) == name \in files_in_dir

\* The files a destination directory may hold when the call starts.
DirFileNames == {ZipName(n) : n \in TileNames} \cup {<<"A">>}

\* What a file held before the call.
OldContent == <<"old">>

\* The body of the response to a download request: whose it is, and the
\* status it came with.
BodyOf(response) == <<"body", response.id, response.status>>

\* Destination directories: absent, or holding some of DirFileNames.
DirStates ==
    {[exists |-> FALSE, files |-> <<>>]} \cup
    {[exists |-> TRUE, files |-> [f \in S |-> OldContent]] : S \in SUBSET DirFileNames}

\* dir_path: None, "", or the path of the destination directory.
DirPaths == {"None", "", "dest"}

\* os.path.exists(dir_path) raises TypeError on None; os.makedirs("") raises
\* FileNotFoundError.
PrepareRaises(dir_path) == dir_path = "None" \/ dir_path = ""

\* A catalogue response of n tiles: tile k has Id k and the k-th name.
TilesOf(names) == [k \in 1..Len(names) |-> [Id |-> k, Name |-> names[k]]]

Catalogues == {TilesOf(names) : names \in SeqsUpTo(TileNames, MaxTiles)}

Statuses == {200, 301, 302, 303, 307, 400, 401, 404}

\* if data_response.status_code in (301, 302, 303, 307, 401)
AuthFailStatusesNo307 == {301, 302, 303, 401}
AuthFailStatusesWith400 == {301, 302, 303, 307, 400, 401}
AuthFailStatuses == {301, 302, 303, 307, 401}

\* The tokens: the caller's are number 0, those of the k-th refresh
\* response number k.
AccessToken(k) == <<"access", k>>
RefreshToken(k) == <<"refresh", k>>

\* The token endpoint's JSON: a token pair, or an error without tokens.
TokenJson(k) == [access_token |-> AccessToken(k), refresh_token |-> RefreshToken(k)]
TokenErrorJson == [error |-> "invalid_grant"]

\* "https://zipper.dataspace.copernicus.eu/odata/v1/Products(" + Id + ")/$value"
DownloadUrl(tile) == <<"Products", tile.Id, "$value">>
TokenUrl == <<"token">>

NoResponse == [status |-> 0, id |-> 0]

Tile == dl_in.tiles[dl_i]

\* The arguments only data_sentinel_request_by_id takes: countid, a position
\* in the catalogue counted from 0, and whether
\* access_response["time_generated"] is more than 10 minutes ago.  For the
\* other function they are left at one value.
ByIdArgs(fn) ==
    IF fn = "data_sentinel_request_by_id"
    THEN [countid : {0, 1}, stale : BOOLEAN]
    ELSE {[countid |-> 1, stale |-> FALSE]}

\* A call of one of the two download functions.  The directory the files go
\* to is the one at dir_path; with dir_path None or "" data_sentinel_request
\* checks it before anything else and raises, while
\* data_sentinel_request_by_id makes and uses "./inputdir/".
InitDl ==
    /\ \E fn \in {"data_sentinel_request", "data_sentinel_request_by_id"},
          tiles \in Catalogues, d \in DirStates, p \in DirPaths :
         \E a \in ByIdArgs(fn) :
            /\ (fn = "data_sentinel_request" /\ p # "dest")
                  => d = [exists |-> FALSE, files |-> <<>>]
            /\ dl_in = [fn |-> fn, access_token |-> AccessToken(0),
                        refresh_token |-> RefreshToken(0), tiles |-> tiles,
                        dir_path |-> p, dir0 |-> d, countid |-> a.countid,
                        stale |-> a.stale]
            /\ dl_dir = d
            /\ dl_pc = IF fn = "data_sentinel_request" THEN "prepare" ELSE "id_start"
            /\ dl_i = IF fn = "data_sentinel_request" THEN 1 ELSE a.countid + 1
    /\ dl_files_in_dir = {}
    /\ dl_token = AccessToken(0)
    /\ dl_response = NoResponse
    /\ dl_trace = <<>>
    /\ dl_requested = {}
    /\ dl_refreshes = 0
    /\ CatParked /\ FsParked /\ BatchParked
    /\ UnzipParked /\ TokenParked /\ FilterParked

\* Lines 208-228: the session gets the caller's access token, the directory
\* is created when absent, and the names already there are listed.
DlPrepare ==
    /\ dl_pc = "prepare"
    /\ IF PrepareRaises(dl_in.dir_path)
       THEN /\ dl_pc' = "raised"
            /\ UNCHANGED <<dl_dir, dl_files_in_dir>>
       ELSE /\ dl_pc' = "tile"
            /\ dl_dir' = [dl_dir EXCEPT !.exists = TRUE]
            /\ dl_files_in_dir' = FilesInDir(DOMAIN dl_dir.files)
    /\ dl_token' = dl_in.access_token
    /\ UNCHANGED <<dl_in, dl_i, dl_response, dl_trace, dl_requested, dl_refreshes, notdl>>

\* Lines 234-236: the tile's name is in files_in_dir: continue.
DlSkip ==
    /\ dl_pc = "tile"
    /\ dl_i <= Len(dl_in.tiles)
    /\ AlreadyDownloaded(Tile.Name, dl_files_in_dir)
    /\ dl_i' = dl_i + 1
    /\ dl_trace' = <<>>
    /\ dl_response' = NoResponse
    /\ UNCHANGED <<dl_in, dl_pc, dl_dir, dl_files_in_dir, dl_token, dl_requested,
                   dl_refreshes, notdl>>

\* Lines 238-240: the first download request of a tile, with the session's token.
DlFirstGet ==
    /\ dl_pc = "tile"
    /\ dl_i <= Len(dl_in.tiles)
    /\ ~AlreadyDownloaded(Tile.Name, dl_files_in_dir)
    /\ \E st \in Statuses :
         /\ dl_response' = [status |-> st, id |-> Tile.Id]
         /\ dl_trace' = <<[kind |-> "GET", url |-> DownloadUrl(Tile),
                           token |-> dl_token, status |-> st]>>
         /\ dl_pc' = IF st \in AuthFailStatuses THEN "refresh" ELSE "write"
    /\ dl_requested' = dl_requested \cup {Tile.Id}
    /\ UNCHANGED <<dl_in, dl_i, dl_dir, dl_files_in_dir, dl_token, dl_refreshes, notdl>>

\* Lines 244-248: data["refresh_token"] is the local variable refresh_token,
\* assigned once, at line 209; `done` refresh responses came before.
RefreshTokenSentLatest(in, done) == IF done = 0 THEN in.refresh_token ELSE RefreshToken(done)
RefreshTokenSent(in, done) == in.refresh_token

\* Lines 241-255: the refresh-token request, made with the local variable
\* refresh_token; the response's 'access_token' goes into the session, and a
\* response without that key raises KeyError.
DlRefresh ==
    /\ dl_pc = "refresh"
    /\ dl_refreshes' = dl_refreshes + 1
    /\ \E json \in {TokenJson(dl_refreshes + 1), TokenErrorJson} :
         /\ dl_trace' = Append(dl_trace,
                [kind |-> "POST", url |-> TokenUrl,
                 token |-> RefreshTokenSent(dl_in, dl_refreshes),
                 status |-> IF "access_token" \in DOMAIN json THEN 200 ELSE 400])
         /\ IF "access_token" \in DOMAIN json
            THEN dl_token' = json.access_token /\ dl_pc' = "retry"
            ELSE dl_token' = dl_token /\ dl_pc' = "raised"
    /\ UNCHANGED <<dl_in, dl_i, dl_dir, dl_files_in_dir, dl_response, dl_requested, notdl>>

\* Lines 256-257: the one retry of the same URL, with the new token.
DlRetry ==
    /\ dl_pc = "retry"
    /\ \E st \in Statuses :
         /\ dl_response' = [status |-> st, id |-> Tile.Id]
         /\ dl_trace' = Append(dl_trace, [kind |-> "GET", url |-> DownloadUrl(Tile),
                                          token |-> dl_token, status |-> st])
    /\ dl_pc' = "write"
    /\ UNCHANGED <<dl_in, dl_i, dl_dir, dl_files_in_dir, dl_token, dl_requested,
                   dl_refreshes, notdl>>

\* if data_response.status_code == 400: print(...), and nothing else
ExpiredMessages(response) ==
    IF response.status = 400
    THEN <<[kind |-> "PRINT", url |-> <<"expired">>, token |-> <<"none", 0>>,
            status |-> response.status]>>
    ELSE <<>>

\* Lines 259-279: the message on a 400, then the body goes to <dir>/<Name>.zip
\* and the loop goes on to the next tile.
DlWrite ==
    /\ dl_pc = "write"
    /\ dl_trace' = dl_trace \o ExpiredMessages(dl_response)
    /\ dl_dir' = [dl_dir EXCEPT !.files =
                    [f \in DOMAIN dl_dir.files \cup {ZipName(Tile.Name)} |->
                        IF f = ZipName(Tile.Name) THEN BodyOf(dl_response)
                        ELSE dl_dir.files[f]]]
    /\ dl_i' = dl_i + 1
    /\ dl_pc' = "tile"
    /\ UNCHANGED <<dl_in, dl_files_in_dir, dl_token, dl_response, dl_requested,
                   dl_refreshes, notdl>>

\* Line 280: the loop is over.
DlReturn ==
    /\ dl_pc = "tile"
    /\ dl_i > Len(dl_in.tiles)
    /\ dl_pc' = "returned"
    /\ UNCHANGED <<dl_in, dl_i, dl_dir, dl_files_in_dir, dl_token, dl_response,
                   dl_trace, dl_requested, dl_refreshes, notdl>>

(***************************************************************************)
(* dtSat.data_sentinel_request_by_id: one tile, lookup_tiles[countid].      *)
(***************************************************************************)

\* Lines 125-146: a token older than 10 minutes is refreshed first, with the
\* caller's refresh token; r.json()["access_token"] raises KeyError on a
\* response without it (r.raise_for_status() comes after).  Then the session
\* gets the token.
DlByIdStart ==
    /\ dl_pc = "id_start"
    /\ IF dl_in.stale
       THEN /\ dl_refreshes' = dl_refreshes + 1
            /\ \E json \in {TokenJson(dl_refreshes + 1), TokenErrorJson} :
                 /\ dl_trace' = Append(dl_trace,
                        [kind |-> "POST", url |-> TokenUrl, token |-> dl_in.refresh_token,
                         status |-> IF "access_token" \in DOMAIN json THEN 200 ELSE 400])
                 /\ IF "access_token" \in DOMAIN json
                    THEN dl_token' = json.access_token /\ dl_pc' = "id_get"
                    ELSE dl_token' = dl_token /\ dl_pc' = "raised"
       ELSE /\ dl_token' = dl_in.access_token
            /\ dl_pc' = "id_get"
            /\ UNCHANGED <<dl_refreshes, dl_trace>>
    /\ UNCHANGED <<dl_in, dl_i, dl_dir, dl_files_in_dir, dl_response, dl_requested, notdl>>

\* Lines 158-165: tile = lookup_tiles[countid] raises IndexError past the
\* end of the catalogue; otherwise the one download request, whose status is
\* not looked at.  A request that fails outright (status 0) is raised again
\* as an Exception.
DlByIdGet ==
    /\ dl_pc = "id_get"
    /\ IF dl_in.countid >= Len(dl_in.tiles)
       THEN /\ dl_pc' = "raised"
            /\ UNCHANGED <<dl_response, dl_trace, dl_requested>>
       ELSE /\ \E st \in Statuses \cup {0} :
                 /\ dl_response' = [status |-> st, id |-> Tile.Id]
                 /\ dl_trace' = Append(dl_trace,
                        [kind |-> "GET", url |-> DownloadUrl(Tile), token |-> dl_token,
                         status |-> st])
                 /\ dl_pc' = IF st = 0 THEN "raised" ELSE "id_write"
            /\ dl_requested' = dl_requested \cup {Tile.Id}
    /\ UNCHANGED <<dl_in, dl_i, dl_dir, dl_files_in_dir, dl_token, dl_refreshes, notdl>>

\* Lines 167-185: with dir_path None or "", os.makedirs("./inputdir/") (it
\* raises when the directory is there) and the body goes to
\* ./inputdir/<Name>.zip; otherwise the body goes to <dir_path>/<Name>.zip,
\* and open() raises when that directory is missing.  A file of that name is
\* overwritten.
DlByIdWrite ==
    /\ dl_pc = "id_write"
    /\ IF (dl_in.dir_path \in {"None", ""}) = dl_dir.exists
       THEN /\ dl_pc' = "raised"
            /\ dl_dir' = dl_dir
       ELSE /\ dl_pc' = "returned"
            /\ dl_dir' = [exists |-> TRUE,
                          files |-> [f \in DOMAIN dl_dir.files \cup {ZipName(Tile.Name)} |->
                                        IF f = ZipName(Tile.Name) THEN BodyOf(dl_response)
                                        ELSE dl_dir.files[f]]]
    /\ UNCHANGED <<dl_in, dl_i, dl_files_in_dir, dl_token, dl_response, dl_trace,
                   dl_requested, dl_refreshes, notdl>>

NextDl ==
    \/ DlPrepare \/ DlSkip \/ DlFirstGet \/ DlRefresh \/ DlRetry \/ DlWrite \/ DlReturn
    \/ DlByIdStart \/ DlByIdGet \/ DlByIdWrite

SpecDl == InitDl /\ [][NextDl]_vars

\* One thread runs the function to its end.
FairSpecDl == SpecDl /\ WF_vars(NextDl)

(***************************************************************************)
(* Claims about data_sentinel_request.                                     *)
(***************************************************************************)

\* The requests of the tile's trace, without the messages.
TileRequests == SelectSeq(dl_trace, LAMBDA e : e.kind \in {"GET", "POST"})

KindsOf(trace) == [j \in 1..Len(trace) |-> trace[j].kind]

\* The call is one of data_sentinel_request, the function the claims are about.
ByCatalogue == dl_in.fn = "data_sentinel_request"

\* No more request will be made for the tile of the trace.
TileSettled ==
    ByCatalogue /\ dl_trace # <<>> /\ dl_pc \in {"write", "tile", "returned", "raised"}

\* C5 (as claimed): a catalogue entry whose '<Name>.zip' is in the destination
\* directory when the call starts is skipped: no request is issued for its Id
\* and the file keeps its content, whatever the Name, dotted names included.
C5_ExistingZipIsSkipped ==
    \A k \in 1..Len(dl_in.tiles) :
        (ByCatalogue /\ ZipName(dl_in.tiles[k].Name) \in DOMAIN dl_in.dir0.files)
            => /\ dl_in.tiles[k].Id \notin dl_requested
               /\ dl_dir.files[ZipName(dl_in.tiles[k].Name)] = OldContent

\* C8, the part that needs no amendment: a tile gets at most 2 download
\* requests and at most 1 token request, and a first status outside
\* 301/302/303/307/401 is followed by no refresh-token request and no retry.
C8_Bounds ==
    /\ ByCatalogue => Len(SelectSeq(dl_trace, LAMBDA e : e.kind = "GET")) <= 2
    /\ ByCatalogue => Len(SelectSeq(dl_trace, LAMBDA e : e.kind = "POST")) <= 1
    /\ (TileSettled /\ dl_trace[1].status \notin {301, 302, 303, 307, 401})
          => KindsOf(TileRequests) = <<"GET">>

\* C8 (as claimed): for a tile that is not skipped, a first status in
\* 301/302/303/307/401 is followed by exactly one refresh-token request and
\* then exactly one retry of the same URL, whatever the retry's status; any
\* other first status by no refresh-token request and no retry.
C8_RefreshThenRetryOnce ==
    /\ C8_Bounds
    /\ (TileSettled /\ dl_trace[1].status \in {301, 302, 303, 307, 401})
          => /\ KindsOf(TileRequests) = <<"GET", "POST", "GET">>
             /\ TileRequests[3].url = TileRequests[1].url

\* C8 (amended): as claimed when the refresh response carries an
\* 'access_token'; when it does not, the one refresh-token request is followed
\* by no retry: the call raises there.
C8_RefreshThenRetryUnlessRefreshFails ==
    /\ C8_Bounds
    /\ (TileSettled /\ dl_trace[1].status \in {301, 302, 303, 307, 401})
          => \/ /\ dl_pc # "raised"
                /\ KindsOf(TileRequests) = <<"GET", "POST", "GET">>
                /\ TileRequests[3].url = TileRequests[1].url
                /\ TileRequests[2].status = 200
             \/ /\ dl_pc = "raised"
                /\ KindsOf(TileRequests) = <<"GET", "POST">>
                /\ TileRequests[2].status = 400

\* A retry that is itself answered 401 is not retried again: the loop moved on.
C8_Witness ==
    /\ ByCatalogue
    /\ dl_pc = "tile"
    /\ dl_i = 2
    /\ Len(dl_trace) = 3
    /\ dl_trace[1].status = 307
    /\ dl_trace[2].kind = "POST"
    /\ dl_trace[3].kind = "GET" /\ dl_trace[3].status = 401

\* C9, the state part: a download response with status 400 is followed by no
\* request for that tile (only by the message), and the call has not raised.
C9_NoRecoveryAfter400 ==
    \A j \in 1..Len(dl_trace) :
        (ByCatalogue /\ dl_trace[j].kind = "GET" /\ dl_trace[j].status = 400)
            => /\ \A m \in (j + 1)..Len(dl_trace) : dl_trace[m].kind = "PRINT"
               /\ dl_pc \in {"write", "tile", "returned"}

\* C9, the step part: with a final response of status 400 the next step
\* writes that response's body to '<Name>.zip' and goes on to the next tile,
\* without raising and without a request.
C9_WritesAndGoesOn ==
    (dl_pc = "write" /\ dl_response.status = 400)
        => /\ dl_pc' = "tile"
           /\ dl_i' = dl_i + 1
           /\ dl_dir'.files[ZipName(Tile.Name)] = <<"body", Tile.Id, 400>>
           /\ dl_requested' = dl_requested
           /\ TileRequests' = TileRequests

\* C9: when the final response for a tile has status 400, on the first
\* request or on the retry, nothing is raised and no recovery request is
\* made; the body is written to '<Name>.zip' and the loop goes on.
C9_Status400IsSilent == []C9_NoRecoveryAfter400 /\ [][C9_WritesAndGoesOn]_vars

\* The call has returned, its last tile answered 400 on the retry, and the
\* tile's file holds that response.
C9_Witness ==
    /\ ByCatalogue
    /\ dl_pc = "returned"
    /\ Len(dl_in.tiles) = 1
    /\ KindsOf(dl_trace) = <<"GET", "POST", "GET", "PRINT">>
    /\ dl_trace[3].status = 400
    /\ dl_dir.files[ZipName(dl_in.tiles[1].Name)] = <<"body", 1, 400>>

\* The request a step adds to the tile's trace, when it adds one.
C19_StepAddsRequest ==
    /\ ByCatalogue
    /\ dl_trace' # dl_trace
    /\ dl_trace' # <<>>
    /\ dl_trace'[Len(dl_trace')].kind \in {"GET", "POST"}

C19_TokensOfStep ==
    C19_StepAddsRequest
        => LET e == dl_trace'[Len(dl_trace')]
           IN  /\ e.kind = "GET"
                    => e.token = IF dl_refreshes' = 0 THEN dl_in.access_token
                                 ELSE TokenJson(dl_refreshes').access_token
               /\ e.kind = "POST"
                    => /\ e.token = dl_in.refresh_token
                       /\ \A k \in 1..dl_refreshes : e.token # TokenJson(k).refresh_token

\* C19: in one call of data_sentinel_request every download request carries
\* the access token obtained last (the caller's before the first refresh,
\* then the one of the latest refresh response), and every refresh request
\* carries the caller's refresh token, never one a refresh response returned.
C19_LatestAccessTokenOriginalRefreshToken == [][C19_TokensOfStep]_vars

C19_Witness ==
    /\ ByCatalogue
    /\ dl_refreshes = 2
    /\ dl_i = 2
    /\ Len(dl_trace) = 3
    /\ dl_trace[1].kind = "GET" /\ dl_trace[1].token = AccessToken(1)
    /\ dl_trace[2].kind = "POST" /\ dl_trace[2].token = RefreshToken(0)
    /\ dl_trace[3].kind = "GET" /\ dl_trace[3].token = AccessToken(2)

(***************************************************************************)
(* dtAcolite.acolite_batch_run                                             *)
(***************************************************************************)

InputPaths == {"in/S2A", "in/S2B"}
OutputPaths == {"out/S2A", "out/S2B"}

\* The settings mapping the caller passes: with or without earlier values
\* under the two keys the function sets.
SettingsArgs ==
    {[l2w_parameters |-> "chl_oc3"],
     [l2w_parameters |-> "chl_oc3", inputfile |-> "in/old", output |-> "out/old"]}

\* settings[key] = value
Put(settings, key, value) ==
    [k \in DOMAIN settings \cup {key} |-> IF k = key THEN value ELSE settings[k]]

\* Lines 242-243, for the loop index i (from 0).
IterSettingsFirstOutput(settings, inputfile, outputdir, i) ==
    Put(Put(settings, "inputfile", inputfile[i + 1]), "output", outputdir[1])
IterSettings(settings, inputfile, outputdir, i) ==
    Put(Put(settings, "inputfile", inputfile[i + 1]), "output", outputdir[i + 1])

Unbound == -1

\* Line 244: the external routine, called for index i (from 0), returns and
\* the loop goes on, or raises; the function catches nothing.
AfterRunCaught(fails_at, i) == "loop"
AfterRun(fails_at, i) == IF fails_at = i + 1 THEN "raised" ELSE "loop"

\* Line 246: f"... {inputfile[i]}" reads the loop variable, which is bound
\* only when the loop body ran at least once.
FinalMessageGuarded(i) == "returned"
FinalMessage(i) == IF i = Unbound THEN "raised" ELSE "returned"

InitBatch ==
    /\ \E st \in SettingsArgs, inp \in SeqsUpTo(InputPaths, MaxBatch),
          out \in SeqsUpTo(OutputPaths, MaxBatch) :
         \E f \in 0..Len(inp) :
            b_in = [settings |-> st, inputfile |-> inp, outputdir |-> out, fails_at |-> f]
    /\ b_settings = b_in.settings
    /\ b_pc = "loop"
    /\ b_i = Unbound
    /\ b_calls = <<>>
    /\ CatParked /\ DlParked /\ FsParked
    /\ UnzipParked /\ TokenParked /\ FilterParked

\* Lines 240-244: one turn of the loop.  outputdir[i] raises IndexError on a
\* shorter output list, after settings['inputfile'] was set; an exception of
\* the external routine is not caught.
BatchIter ==
    /\ b_pc = "loop"
    /\ b_i + 1 < Len(b_in.inputfile)
    /\ b_i' = b_i + 1
    /\ IF b_i' >= Len(b_in.outputdir)
       THEN /\ b_settings' = Put(b_settings, "inputfile", b_in.inputfile[b_i' + 1])
            /\ b_calls' = b_calls
            /\ b_pc' = "raised"
       ELSE /\ b_settings' = IterSettings(b_settings, b_in.inputfile, b_in.outputdir, b_i')
            /\ b_calls' = Append(b_calls, [i |-> b_i', settings |-> b_settings'])
            /\ b_pc' = AfterRun(b_in.fails_at, b_i')
    /\ UNCHANGED <<b_in, notbatch>>

\* Lines 245-247: after the loop; the last message reads inputfile[i].
BatchFinish ==
    /\ b_pc = "loop"
    /\ b_i + 1 >= Len(b_in.inputfile)
    /\ b_pc' = FinalMessage(b_i)
    /\ UNCHANGED <<b_in, b_i, b_settings, b_calls, notbatch>>

NextBatch == BatchIter \/ BatchFinish

SpecBatch == InitBatch /\ [][NextBatch]_vars

\* The function runs to its end: nothing in it waits.
FairSpecBatch == SpecBatch /\ WF_vars(NextBatch)

(***************************************************************************)
(* Claims about acolite_batch_run.                                         *)
(***************************************************************************)

\* C10: for input and output lists of one length n >= 1 and a routine that
\* never fails, the routine is invoked n times, in index order 0..n-1; the
\* i-th invocation sees settings['inputfile'] = inputfile[i] and
\* settings['output'] = outputdir[i], and every other key as the caller gave it.
C10_OneInvocationPerPair ==
    (/\ Len(b_in.inputfile) = Len(b_in.outputdir)
     /\ Len(b_in.inputfile) >= 1
     /\ b_in.fails_at = 0)
        => /\ b_pc # "raised"
           /\ Len(b_calls) <= Len(b_in.inputfile)
           /\ b_pc = "returned" => Len(b_calls) = Len(b_in.inputfile)
           /\ \A k \in 1..Len(b_calls) :
                /\ b_calls[k].i = k - 1
                /\ DOMAIN b_calls[k].settings =
                       DOMAIN b_in.settings \cup {"inputfile", "output"}
                /\ b_calls[k].settings["inputfile"] = b_in.inputfile[k]
                /\ b_calls[k].settings["output"] = b_in.outputdir[k]
                /\ \A key \in DOMAIN b_in.settings \ {"inputfile", "output"} :
                       b_calls[k].settings[key] = b_in.settings[key]

C10_Witness ==
    /\ b_pc = "returned"
    /\ b_in.fails_at = 0
    /\ Len(b_in.inputfile) = MaxBatch
    /\ Len(b_in.outputdir) = MaxBatch
    /\ Len(b_calls) = MaxBatch
    /\ b_in.outputdir[1] # b_in.outputdir[2]
    /\ "inputfile" \in DOMAIN b_in.settings

\* The external routine raises at index i = fails_at - 1, and the loop gets
\* there (the output list is long enough).
C11_RaisesAtSomeIndex ==
    b_in.fails_at >= 1 /\ Len(b_in.outputdir) >= b_in.fails_at

C11_NoCallAfterRaise ==
    C11_RaisesAtSomeIndex
        => /\ b_pc # "returned"
           /\ Len(b_calls) <= b_in.fails_at
           /\ \A k \in 1..Len(b_calls) : b_calls[k].i = k - 1
           /\ (b_pc = "raised") <=> (Len(b_calls) = b_in.fails_at)

C11_CallsKept ==
    /\ Len(b_calls') >= Len(b_calls)
    /\ SubSeq(b_calls', 1, Len(b_calls)) = b_calls

\* C11: when the external routine raises at index i, the exception leaves
\* acolite_batch_run, the routine is invoked for no index j > i, and the
\* invocations for the indices before i stay made.
C11_RaiseAbortsRemainingBatch ==
    []C11_NoCallAfterRaise /\ [][C11_CallsKept]_vars

C11_Witness ==
    /\ b_pc = "raised"
    /\ b_in.fails_at = 2
    /\ Len(b_in.inputfile) = MaxBatch
    /\ Len(b_in.outputdir) = MaxBatch
    /\ Len(b_calls) = 2

C18_EmptyInput == b_in.inputfile = <<>>

C18_NothingDone ==
    C18_EmptyInput
        => /\ b_calls = <<>>
           /\ b_settings = b_in.settings
           /\ b_i = Unbound
           /\ b_pc # "returned"

\* C18: with an empty input sequence acolite_batch_run never invokes the
\* external routine and leaves settings as given, and the call ends in an
\* error: the final message reads the loop index, which was never bound.
C18_EmptyBatchEndsInError ==
    []C18_NothingDone /\ (C18_EmptyInput ~> (b_pc = "raised"))

C18_Witness ==
    /\ C18_EmptyInput
    /\ b_pc = "raised"
    /\ b_calls = <<>>
    /\ b_in.outputdir # <<>>

(***************************************************************************)
(* The filesystem.  A path is a sequence of names, relative to the working *)
(* directory; fs.dirs and fs.files are the paths that exist.               *)
(***************************************************************************)

\* A name without a dot.
Name(s) == <<s>>

Prefixes(p) == {SubSeq(p, 1, k) : k \in 1..Len(p)}

\* os.path.dirname
Parent(p) == SubSeq(p, 1, Len(p) - 1)

\* os.path.exists, os.path.isdir, os.path.isfile
Exists(f, p) == p \in f.dirs \cup f.files
IsDir(f, p) == p \in f.dirs
IsFile(f, p) == p \in f.files

\* The entries of directory p, as paths.
Entries(f, p) == {r \in f.dirs \cup f.files : Len(r) = Len(p) + 1 /\ Parent(r) = p}

\* os.listdir(p)
Listdir(f, p) == {r[Len(r)] : r \in Entries(f, p)}

\* os.makedirs(p) raises when p, or a directory it needs, is a file
\* (FileExistsError, NotADirectoryError) or when p is there already.
MakedirsRaises(f, p) == Prefixes(p) \cap f.files # {} \/ p \in f.dirs

\* os.makedirs(p): p and every missing parent.
Makedirs(f, p) == [f EXCEPT !.dirs = @ \cup Prefixes(p)]

\* if not os.path.exists(p): os.makedirs(p)
\* The filesystem afterwards, and whether makedirs raised.
EnsureDirNoExistsTest(f, p) ==
    IF MakedirsRaises(f, p) THEN [fs |-> f, raised |-> TRUE]
    ELSE [fs |-> Makedirs(f, p), raised |-> FALSE]
EnsureDir(f, p) ==
    IF Exists(f, p) THEN [fs |-> f, raised |-> FALSE]
    ELSE IF MakedirsRaises(f, p) THEN [fs |-> f, raised |-> TRUE]
    ELSE [fs |-> Makedirs(f, p), raised |-> FALSE]

\* EnsureDir for each path of a sequence in turn, up to the first that raises.
RECURSIVE EnsureAll(_, _)
EnsureAll(f, paths) ==
    IF paths = <<>> THEN [fs |-> f, raised |-> FALSE]
    ELSE LET r == EnsureDir(f, Head(paths))
         IN  IF r.raised THEN r ELSE EnsureAll(r.fs, Tail(paths))

\* The subsets of S of at most n elements.
RECURSIVE SubsetsUpTo(_, _)
SubsetsUpTo(S, n) ==
    IF n = 0 THEN {{}}
    ELSE LET less == SubsetsUpTo(S, n - 1)
         IN  less \cup {T \cup {x} : T \in less, x \in S}

\* The orders a set can be listed in.
Orderings(S) ==
    {o \in [1..Cardinality(S) -> S] : \A i, j \in DOMAIN o : i # j => o[i] # o[j]}

(***************************************************************************)
(* dtAcolite.configure_acolite_directory, create_acolite_input,            *)
(* create_acolite_output, and dtSat.upload_local_directory_to_minio, as    *)
(* the pipeline of test.py calls them: with one (base_dir, collection,     *)
(* year), each function on what the one before returned.                   *)
(***************************************************************************)

\* base_dir: "" (or None), or a directory name.
BaseDirs == {<<>>, <<Name("Test_dir")>>}

\* collection: "" (or None), the two supported ones, and another.
FsCollections == {"", "sentinel", "landsat", "modis"}

\* year: 0 (or None), or a year.
Years == {0, 2021}

\* f"{year}"
YearStr(y) == IF y = 2021 THEN "2021" ELSE "0"

\* Lines 44-46.
raw_inputdir(a) ==
    a.base_dir \o <<Name("app_acolite"), Name("raw"), Name(a.collection), Name(YearStr(a.year))>>
acolite_inputdir(a) ==
    a.base_dir \o <<Name("app_acolite"), Name("processed"), Name("inputdir"),
                    Name(a.collection), Name(YearStr(a.year))>>
acolite_outputdir(a) ==
    a.base_dir \o <<Name("app_acolite"), Name("processed"), Name("outputdir"),
                    Name(a.collection), Name(YearStr(a.year))>>

\* The upload's local_path: the output tree above <collection>/<year>.
local_path(a) ==
    a.base_dir \o <<Name("app_acolite"), Name("processed"), Name("outputdir")>>

\* Files of the raw directory, and of a scene's output directory.
RawFileNames == {<<"S2A", "zip">>, <<"S2A", "SAFE", "zip">>, <<"notes", "txt">>}
SceneDirName == Name("S2A")
OutputFileNames == {<<"S2A_L2W", "nc">>, <<"L8_L2W", "nc">>, <<"S2A_L1R", "nc">>}

\* fnmatch of a name against the pattern "S2**L2W**" or "L8**L2W**".
Matches(name, pattern) ==
    \/ pattern = "S2**L2W**" /\ name = <<"S2A_L2W", "nc">>
    \/ pattern = "L8**L2W**" /\ name = <<"L8_L2W", "nc">>

\* The paths that may be directories, and those that may be files, before
\* the pipeline runs.
DirCandidates(a) ==
    Prefixes(raw_inputdir(a)) \cup Prefixes(acolite_inputdir(a))
        \cup Prefixes(acolite_outputdir(a))
        \cup {acolite_outputdir(a) \o <<SceneDirName>>}
        \cup {acolite_outputdir(a) \o <<SceneDirName, n>> : n \in OutputFileNames}
FileCandidates(a) ==
    DirCandidates(a) \cup {raw_inputdir(a) \o <<n>> : n \in RawFileNames}

\* The values a function returns, in one shape.
Ret(kind, msg, cfg, names, paths) ==
    [kind |-> kind, msg |-> msg, cfg |-> cfg, names |-> names, paths |-> paths]
NoCfg == [year |-> 0, collection |-> "", raw_inputdir |-> <<>>,
          acolite_inputdir |-> <<>>, acolite_outputdir |-> <<>>]
RetUnset == Ret("unset", "", NoCfg, <<>>, <<>>)
RetNone == Ret("none", "", NoCfg, <<>>, <<>>)
RetString(msg) == Ret("string", msg, NoCfg, <<>>, <<>>)
RetRaised(exc) == Ret("raised", exc, NoCfg, <<>>, <<>>)
RetConfig(cfg) == Ret("config", "", cfg, <<>>, <<>>)
RetNames(names) == Ret("names", "", NoCfg, names, <<>>)
RetPaths(paths) == Ret("paths", "", NoCfg, <<>>, paths)

\* Lines 69-75.
AppConfiguration(a) ==
    [year |-> a.year, collection |-> a.collection, raw_inputdir |-> raw_inputdir(a),
     acolite_inputdir |-> acolite_inputdir(a), acolite_outputdir |-> acolite_outputdir(a)]

\* collections = ["sentinel", "landsat"]
collections == {"sentinel", "landsat"}

NoCall == [op |-> "none", ret |-> RetUnset, before |-> [dirs |-> {}, files |-> {}],
           after |-> [dirs |-> {}, files |-> {}], uploads |-> {}]

Call(op, ret, before, after, uploads) ==
    [op |-> op, ret |-> ret, before |-> before, after |-> after, uploads |-> uploads]

InitFS ==
    /\ fs_in \in [base_dir : BaseDirs, collection : FsCollections, year : Years]
    /\ IF fs_in.base_dir # <<>> /\ fs_in.collection # "" /\ fs_in.year # 0
       THEN \E P \in SubsetsUpTo(DirCandidates(fs_in), MaxPre),
               F \in SubsetsUpTo(FileCandidates(fs_in), MaxObst) :
              LET dirs == UNION {Prefixes(p) : p \in P}
              IN  /\ F \cap dirs = {}
                  /\ \A f \in F : Len(f) = 1 \/ Parent(f) \in dirs
                  /\ fs = [dirs |-> dirs, files |-> F]
       ELSE fs = [dirs |-> {}, files |-> {}]
    /\ fs_cfg = RetUnset
    /\ fs_filenames = RetUnset
    /\ fs_uploads = {}
    /\ fs_last = NoCall
    /\ fs_prev = NoCall
    /\ CatParked /\ DlParked /\ BatchParked
    /\ UnzipParked /\ TokenParked /\ FilterParked

\* Lines 40-42: the first argument that is missing (None, "" or 0), by the
\* message returned for it; "" when none is.
MissingArgumentNoYearTest(a) ==
    IF a.base_dir = <<>> THEN "base directory"
    ELSE IF a.collection = "" THEN "collection"
    ELSE ""
MissingArgument(a) ==
    IF a.base_dir = <<>> THEN "base directory"
    ELSE IF a.collection = "" THEN "collection"
    ELSE IF a.year = 0 THEN "year"
    ELSE ""

\* configure_acolite_directory(base_dir, collection, year): what it returns
\* and the filesystem it leaves.
ConfigureResult(f, a) ==
    IF MissingArgument(a) # "" THEN [ret |-> RetString(MissingArgument(a)), fs |-> f]
    ELSE LET r == EnsureAll(f, <<raw_inputdir(a), acolite_inputdir(a), acolite_outputdir(a)>>)
         IN  IF r.raised THEN [ret |-> RetRaised("OSError"), fs |-> r.fs]
             ELSE [ret |-> RetConfig(AppConfiguration(a)), fs |-> r.fs]

\* app_configuration = dtAcolite.configure_acolite_directory(...)
FsConfigure ==
    /\ LET r == ConfigureResult(fs, fs_in)
       IN  /\ fs' = r.fs
           /\ fs_cfg' = IF r.ret.kind = "raised" THEN fs_cfg ELSE r.ret
           /\ fs_last' = Call("configure", r.ret, fs, r.fs, {})
    /\ fs_prev' = fs_last
    /\ UNCHANGED <<fs_in, fs_filenames, fs_uploads, notfs>>

\* create_acolite_input(app_configuration), lines 104-128, for a listing
\* order of the raw directory.
CreateInputResult(f, app, order) ==
    IF app.kind = "string" THEN [ret |-> RetRaised("TypeError"), fs |-> f]
    ELSE IF app.cfg.collection \notin collections THEN [ret |-> RetNone, fs |-> f]
    ELSE IF ~IsDir(f, app.cfg.raw_inputdir) THEN [ret |-> RetRaised("OSError"), fs |-> f]
    ELSE LET r == EnsureDir(f, app.cfg.acolite_inputdir)
         IN  IF r.raised THEN [ret |-> RetRaised("OSError"), fs |-> r.fs]
             ELSE [ret |-> RetNames([k \in DOMAIN order |-> SplitDotFirst(order[k])]),
                   fs |-> r.fs]

\* inputfilenames = dtAcolite.create_acolite_input(app_configuration)
FsCreateInput ==
    /\ fs_cfg.kind # "unset"
    /\ \E order \in Orderings({n \in Listdir(fs, raw_inputdir(fs_in)) : EndsWithDotZip(n)}) :
         LET r == CreateInputResult(fs, fs_cfg, order)
         IN  /\ fs' = r.fs
             /\ fs_filenames' = IF r.ret.kind = "raised" THEN fs_filenames ELSE r.ret
             /\ fs_last' = Call("create_input", r.ret, fs, r.fs, {})
    /\ fs_prev' = fs_last
    /\ UNCHANGED <<fs_in, fs_cfg, fs_uploads, notfs>>

\* create_acolite_output(filenames, app_configuration), lines 157-180.
CreateOutputResult(f, filenames, app) ==
    IF app.kind = "string" THEN [ret |-> RetRaised("TypeError"), fs |-> f]
    ELSE IF app.cfg.collection \notin collections THEN [ret |-> RetNone, fs |-> f]
    ELSE LET r == EnsureDir(f, app.cfg.acolite_outputdir)
             filepaths == [k \in DOMAIN filenames.names |->
                               app.cfg.acolite_outputdir \o <<filenames.names[k]>>]
         IN  IF r.raised THEN [ret |-> RetRaised("OSError"), fs |-> r.fs]
             ELSE IF filenames.kind # "names" THEN [ret |-> RetRaised("TypeError"), fs |-> r.fs]
             ELSE LET q == EnsureAll(r.fs, filepaths)
                  IN  IF q.raised THEN [ret |-> RetRaised("OSError"), fs |-> q.fs]
                      ELSE [ret |-> RetPaths(filepaths), fs |-> q.fs]

\* outfilepaths = dtAcolite.create_acolite_output(app_configuration, filenames)
FsCreateOutput ==
    /\ fs_cfg.kind # "unset"
    /\ fs_filenames.kind # "unset"
    /\ LET r == CreateOutputResult(fs, fs_filenames, fs_cfg)
       IN  /\ fs' = r.fs
           /\ fs_last' = Call("create_output", r.ret, fs, r.fs, {})
    /\ fs_prev' = fs_last
    /\ UNCHANGED <<fs_in, fs_cfg, fs_filenames, fs_uploads, notfs>>

\* glob.glob(f"{local_path}/{collection}/{year}/**/<pattern>")
GlobL2W(f, a, pattern) ==
    {p \in f.dirs \cup f.files :
        /\ Len(p) = Len(local_path(a)) + 4
        /\ SubSeq(p, 1, Len(local_path(a)) + 2) =
               local_path(a) \o <<Name(a.collection), Name(YearStr(a.year))>>
        /\ Matches(p[Len(p)], pattern)}

\* upload_local_directory_to_minio(client, bucket, local_path, minio_path,
\* collection, year), dtSat.py lines 428-451.  A match that is a directory is
\* handed to a recursive call whose local_path is no directory: it raises.
UploadResult(f, a) ==
    IF ~IsDir(f, local_path(a)) THEN [ret |-> RetRaised("AssertionError"), puts |-> {}]
    ELSE IF a.collection \notin {"sentinel", "landsat"} THEN [ret |-> RetNone, puts |-> {}]
    ELSE LET L2W_files == IF a.collection = "sentinel"
                          THEN GlobL2W(f, a, "S2**L2W**") ELSE GlobL2W(f, a, "L8**L2W**")
         IN  IF \E p \in L2W_files : ~IsFile(f, p)
             THEN [ret |-> RetRaised("AssertionError"), puts |-> {}]
             ELSE [ret |-> RetNone,
                   puts |-> {<<"acolite_output">> \o SubSeq(p, Len(local_path(a)) + 1, Len(p)) :
                               p \in L2W_files}]

FsUpload ==
    /\ LET r == UploadResult(fs, fs_in)
       IN  /\ fs_uploads' = fs_uploads \cup r.puts
           /\ fs_last' = Call("upload", r.ret, fs, fs, r.puts)
    /\ fs_prev' = fs_last
    /\ UNCHANGED <<fs_in, fs, fs_cfg, fs_filenames, notfs>>

\* upload_satellite_to_minio(client, bucket, local_path, minio_path),
\* dtSat.py lines 467-488: the objects it puts.  glob(f"{local_path}/**")
\* lists the entries of local_path; a directory is handed to a recursive call
\* with its name added to minio_path, a file is put under minio_path with its
\* name.  Both branches of the ".zip" test do the same; collection and year
\* are not used.
RECURSIVE upload_satellite_to_minio(_, _, _)
upload_satellite_to_minio(f, local, minio_path) ==
    UNION {IF ~IsFile(f, e)
           THEN upload_satellite_to_minio(f, e, minio_path \o <<e[Len(e)]>>)
           ELSE {minio_path \o SubSeq(e, Len(local) + 1, Len(e))} : e \in Entries(f, local)}

\* upload_csv_to_minio, dtSat.py lines 503-516: the same loop, its
\* directories handed to upload_satellite_to_minio.
upload_csv_to_minio(f, local, minio_path) ==
    UNION {IF ~IsFile(f, e)
           THEN upload_satellite_to_minio(f, e, minio_path \o <<e[Len(e)]>>)
           ELSE {minio_path \o SubSeq(e, Len(local) + 1, Len(e))} : e \in Entries(f, local)}

\* upload_satellite_to_minio(client, bucket, local_path, "acolite_output",
\* collection, year)
FsUploadSatellite ==
    /\ LET puts == upload_satellite_to_minio(fs, local_path(fs_in), <<"acolite_output">>)
       IN  /\ fs_uploads' = fs_uploads \cup puts
           /\ fs_last' = Call("upload_satellite", RetNone, fs, fs, puts)
    /\ fs_prev' = fs_last
    /\ UNCHANGED <<fs_in, fs, fs_cfg, fs_filenames, notfs>>

\* upload_csv_to_minio(client, bucket, local_path, "acolite_output",
\* collection, year)
FsUploadCsv ==
    /\ LET puts == upload_csv_to_minio(fs, local_path(fs_in), <<"acolite_output">>)
       IN  /\ fs_uploads' = fs_uploads \cup puts
           /\ fs_last' = Call("upload_csv", RetNone, fs, fs, puts)
    /\ fs_prev' = fs_last
    /\ UNCHANGED <<fs_in, fs, fs_cfg, fs_filenames, notfs>>

\* re.search(tile, dir_path + os.path.basename(obj.object_name)), line 533:
\* the pattern is looked for in the directory's name too.
TileFound(tile, dir_path, basename) ==
    \/ tile = "S2A" /\ basename[1] \in {"S2A", "S2A_L2W", "S2A_L1R"}
    \/ tile = "Test" /\ dir_path = <<Name("Test_dir")>>

\* download_acolite_from_minio(client, bucket, tile, collection, dir_path,
\* year), dtSat.py lines 530-535, with dir_path the base directory and a
\* slash: every object under acolite_output/<collection>/<year> whose local
\* name has the tile is fetched to dir_path + its base name.  fget_object
\* makes the directory of the file when it is missing (it raises when a file
\* stands there) and replaces a file of that name.
DownloadResult(f, bucket, a, tile) ==
    LET objects == {o \in bucket :
                       /\ Len(o) >= 3
                       /\ SubSeq(o, 1, 3) = <<"acolite_output">>
                              \o <<Name(a.collection), Name(YearStr(a.year))>>}
        fetched == {o \in objects : TileFound(tile, a.base_dir, o[Len(o)])}
    IN  IF fetched = {} THEN [ret |-> RetNone, fs |-> f]
        ELSE IF Prefixes(a.base_dir) \cap f.files # {}
        THEN [ret |-> RetRaised("OSError"), fs |-> f]
        ELSE [ret |-> RetNone,
              fs |-> [dirs |-> f.dirs \cup Prefixes(a.base_dir),
                      files |-> f.files \cup {a.base_dir \o <<o[Len(o)]>> : o \in fetched}]]

\* download_acolite_from_minio(client, bucket, tile, collection, base_dir + "/",
\* year), for a tile found in the scene's file names, one found in no name,
\* and one found in the directory's name.
FsDownload ==
    /\ \E tile \in {"S2A", "T31UFU", "Test"} :
         LET r == DownloadResult(fs, fs_uploads, fs_in, tile)
         IN  /\ fs' = r.fs
             /\ fs_last' = Call("download", r.ret, fs, r.fs, {})
    /\ fs_prev' = fs_last
    /\ UNCHANGED <<fs_in, fs_cfg, fs_filenames, fs_uploads, notfs>>

NextFS ==
    \/ FsConfigure \/ FsCreateInput \/ FsCreateOutput \/ FsUpload
    \/ FsUploadSatellite \/ FsUploadCsv \/ FsDownload

SpecFS == InitFS /\ [][NextFS]_vars

(***************************************************************************)
(* Claims about the directory functions.                                   *)
(***************************************************************************)

\* The two most recent calls are configure_acolite_directory, one right
\* after the other, with all three arguments present and a supported
\* collection.
C1_CalledTwice ==
    /\ fs_prev.op = "configure"
    /\ fs_last.op = "configure"
    /\ fs_in.base_dir # <<>>
    /\ fs_in.collection \in {"sentinel", "landsat"}
    /\ fs_in.year # 0

\* C1 (as claimed): from any filesystem, two calls in a row return the same
\* three paths, the second raises no error, and the second leaves the
\* filesystem as the first left it.
C1_SecondCallReturnsSamePaths ==
    C1_CalledTwice
        => /\ fs_prev.ret.kind = "config"
           /\ fs_last.ret.kind = "config"
           /\ fs_last.ret.cfg = fs_prev.ret.cfg
           /\ fs_last.after = fs_prev.after

\* C1 (amended): two calls in a row end the same way, and the second leaves
\* the filesystem as the first left it; when the first returns, both return
\* the same three paths, derived from the arguments, and the second raises
\* no error.  (The first raises when a file stands where a directory is
\* needed; then so does the second.)
C1_SecondCallSameOutcome ==
    C1_CalledTwice
        => /\ fs_last.ret.kind = fs_prev.ret.kind
           /\ fs_last.ret = fs_prev.ret
           /\ fs_last.before = fs_prev.after
           /\ fs_last.after = fs_prev.after
           /\ fs_prev.ret.kind \in {"config", "raised"}
           /\ fs_prev.ret.kind = "config" =>
                /\ fs_last.ret.cfg.raw_inputdir = raw_inputdir(fs_in)
                /\ fs_last.ret.cfg.acolite_inputdir = acolite_inputdir(fs_in)
                /\ fs_last.ret.cfg.acolite_outputdir = acolite_outputdir(fs_in)
                /\ {raw_inputdir(fs_in), acolite_inputdir(fs_in), acolite_outputdir(fs_in)}
                       \subseteq fs_last.after.dirs \cup fs_last.after.files

\* The first call made directories and returned; the second returned too.
C1_Witness ==
    /\ C1_CalledTwice
    /\ fs_prev.ret.kind = "config"
    /\ fs_last.ret.kind = "config"
    /\ fs_prev.before.dirs # fs_prev.after.dirs
    /\ fs_last.after = fs_prev.after

\* C2 (as claimed): with a collection outside sentinel and landsat, each of
\* configure_acolite_directory, create_acolite_input, create_acolite_output
\* and upload_local_directory_to_minio returns None (or a message), having
\* made no directory and put no object.
C2_UnsupportedCollectionReturnsNone ==
    (/\ fs_last.op \in {"configure", "create_input", "create_output", "upload"}
     /\ fs_in.collection \notin {"sentinel", "landsat"}
     /\ fs_last.ret.kind # "raised")
        => /\ fs_last.ret.kind \in {"none", "string"}
           /\ fs_last.after = fs_last.before
           /\ fs_last.uploads = {}

\* C14: when base_dir, collection or year is missing, the call of
\* configure_acolite_directory returns a string, neither raising nor
\* returning a configuration, and the filesystem is as it was.
C14_MissingArgumentReturnsString ==
    (/\ fs_last.op = "configure"
     /\ (fs_in.base_dir = <<>> \/ fs_in.collection = "" \/ fs_in.year = 0))
        => /\ fs_last.ret.kind = "string"
           /\ fs_last.ret.msg \in {"base directory", "collection", "year"}
           /\ fs_last.after = fs_last.before
           /\ fs = fs_last.before

C14_Witness ==
    /\ fs_last.op = "configure"
    /\ fs_in.base_dir # <<>> /\ fs_in.collection = "sentinel" /\ fs_in.year = 0
    /\ fs_last.ret = RetString("year")
    /\ fs_last.after.dirs = {}

(***************************************************************************)
(* Text.  Where a function looks inside a string (a search, a split, a     *)
(* regular expression) the string is the sequence of its characters.       *)
(***************************************************************************)

\* s[k:].startswith(pat), k from 1
StartsAt(s, pat, k) ==
    k >= 1 /\ k + Len(pat) - 1 <= Len(s) /\ SubSeq(s, k, k + Len(pat) - 1) = pat

\* The positions where pat occurs in s.
Occurrences(s, pat) == {k \in 1..Len(s) : StartsAt(s, pat, k)}

Least(S) == CHOOSE k \in S : \A j \in S : k <= j
Greatest(S) == CHOOSE k \in S : \A j \in S : k >= j

\* s.endswith(suffix)
EndsWith(s, suffix) == StartsAt(s, suffix, Len(s) - Len(suffix) + 1)

\* s.split(sep)[0]
SplitFirst(s, sep) ==
    IF Occurrences(s, sep) = {} THEN s
    ELSE SubSeq(s, 1, Least(Occurrences(s, sep)) - 1)

\* No match of a regular expression (a match is never the empty string here).
NoMatch == <<>>

(***************************************************************************)
(* dtAcolite.unzip_inputfiles                                              *)
(***************************************************************************)

\* re.search("S2.*E", s): from the leftmost "S2" to the last "E" after it;
\* group(0) of the match, or NoMatch when re.search returns None.
SearchS2E(s) ==
    LET starts == Occurrences(s, <<"S", "2">>)
        a == Least(starts)
        ends == {k \in 1..Len(s) : k >= a + 2 /\ s[k] = "E"}
    IN  IF starts = {} \/ ends = {} THEN NoMatch
        ELSE SubSeq(s, a, Greatest(ends))

\* f"{inputdir}/{file}"
JoinPath(dir, file) == dir \o <<"/">> \o file

\* Line 219, for one element `file` of raw_scenes (a path):
\* re.search("S2.*E", file.split(".z")[0])
SceneOf(inputdir, name) == SearchS2E(SplitFirst(JoinPath(inputdir, name), <<".", "z">>))

DotZip == <<".", "z", "i", "p">>

\* The raw directory: "raw", as in test.py's layout, and "S2/raw", below a
\* directory named for the mission; <<>> is a missing one (None).
InputDirs == {<<>>, <<"r", "a", "w">>, <<"S", "2", "/", "r", "a", "w">>}

\* Files of the raw directory: "S2A.SAFE.zip", "S2B.SAFE.zip" (Sentinel-2
\* archives), "LE7.zip", "L8.zip" (Landsat archives), "L8.txt" (a note).
UnzipFileNames ==
    {<<"S", "2", "A", ".", "S", "A", "F", "E", ".", "z", "i", "p">>,
     <<"S", "2", "B", ".", "S", "A", "F", "E", ".", "z", "i", "p">>,
     <<"L", "E", "7", ".", "z", "i", "p">>, <<"L", "8", ".", "z", "i", "p">>,
     <<"L", "8", ".", "t", "x", "t">>}

\* The top-level entry an archive holds: the product directory its name
\* stands for (the name up to ".zip"), or something else ("x").
ArchiveEntries(name) == {<<"x">>, SplitFirst(name, DotZip)}

\* Entries the destination directory may hold before the first call:
\* "S2A.SAFE", "S2B.SAFE", "x".
EntriesBefore == {<<"S", "2", "A", ".", "S", "A", "F", "E">>, <<"S", "2", "B", ".", "S", "A", "F", "E">>, <<"x">>}

MaxRaw == 2
MaxCalls == 2

InitUnzip ==
    /\ \E dir \in InputDirs, raw \in SubsetsUpTo(UnzipFileNames, MaxRaw),
          same \in BOOLEAN :
         \E content \in [{n \in raw : EndsWith(n, DotZip)} ->
                              UNION {ArchiveEntries(n) : n \in raw}] :
            /\ \A n \in DOMAIN content : content[n] \in ArchiveEntries(n)
            /\ uz_in = [inputdir |-> dir, raw |-> raw, content |-> content,
                        outputdir_is_none |-> same]
    /\ uz_out \in SUBSET EntriesBefore
    /\ uz_pc = "call"
    /\ uz_scenes = <<>>
    /\ uz_log = <<>>
    /\ uz_call = 1
    /\ uz_at_call = {}
    /\ CatParked /\ DlParked /\ FsParked /\ BatchParked /\ TokenParked /\ FilterParked

\* os.listdir(inputdir); with outputdir None (lines 213-215) what is
\* extracted lands in the input directory too.
ListInputdir == uz_in.raw \cup (IF uz_in.outputdir_is_none THEN uz_out ELSE {})

\* os.listdir(outputdir)
ListOutputdir == uz_out \cup (IF uz_in.outputdir_is_none THEN uz_in.raw ELSE {})

\* Line 219: the elements of the listing that pass the filter, in its order.
RECURSIVE FilterScenes(_, _, _)
FilterScenes(inputdir, listing, present) ==
    IF listing = <<>> THEN <<>>
    ELSE LET file == Head(listing)
             rest == FilterScenes(inputdir, Tail(listing), present)
         IN  IF EndsWith(file, DotZip) /\ SceneOf(inputdir, file) \notin present
             THEN <<file>> \o rest ELSE rest

\* Lines 208-219: the listing and the filter.  group(0) of a failed search
\* raises AttributeError, whatever the other files are.
UnzipSelect ==
    /\ uz_pc = "call"
    /\ uz_at_call' = ListOutputdir
    /\ uz_log' = <<>>
    /\ \/ /\ uz_in.inputdir = <<>>
          /\ uz_pc' = "raised"
          /\ uz_scenes' = <<>>
       \/ /\ uz_in.inputdir # <<>>
          /\ \E n \in ListInputdir :
               EndsWith(n, DotZip) /\ SceneOf(uz_in.inputdir, n) = NoMatch
          /\ uz_pc' = "raised"
          /\ uz_scenes' = <<>>
       \/ /\ uz_in.inputdir # <<>>
          /\ \A n \in ListInputdir :
               EndsWith(n, DotZip) => SceneOf(uz_in.inputdir, n) # NoMatch
          /\ \E listing \in Orderings(ListInputdir) :
               uz_scenes' = FilterScenes(uz_in.inputdir, listing, ListOutputdir)
          /\ uz_pc' = "extract"
    /\ UNCHANGED <<uz_in, uz_out, uz_call, notunzip>>

\* Lines 221-224: one turn of the loop, zip_ref.extractall(outputdir).
UnzipExtract ==
    /\ uz_pc = "extract"
    /\ uz_scenes # <<>>
    /\ uz_out' = uz_out \cup {uz_in.content[Head(uz_scenes)]}
    /\ uz_log' = Append(uz_log, Head(uz_scenes))
    /\ uz_scenes' = Tail(uz_scenes)
    /\ UNCHANGED <<uz_in, uz_pc, uz_call, uz_at_call, notunzip>>

UnzipReturn ==
    /\ uz_pc = "extract"
    /\ uz_scenes = <<>>
    /\ uz_pc' = "returned"
    /\ UNCHANGED <<uz_in, uz_out, uz_scenes, uz_log, uz_call, uz_at_call, notunzip>>

\* The pipeline is run again: unzip_inputfiles is called on what it left.
UnzipCallAgain ==
    /\ uz_pc = "returned"
    /\ uz_call < MaxCalls
    /\ uz_call' = uz_call + 1
    /\ uz_pc' = "call"
    /\ UNCHANGED <<uz_in, uz_out, uz_scenes, uz_log, uz_at_call, notunzip>>

NextUnzip == UnzipSelect \/ UnzipExtract \/ UnzipReturn \/ UnzipCallAgain

SpecUnzip == InitUnzip /\ [][NextUnzip]_vars

(***************************************************************************)
(* Claims about unzip_inputfiles.                                          *)
(***************************************************************************)

\* The scene identifier in an archive's name: the scene pattern, searched in
\* the name up to its ".z".
SceneInName(name) == SearchS2E(SplitFirst(name, <<".", "z">>))

ZipNames == {n \in uz_in.raw : EndsWith(n, DotZip)}

\* C12: when every '.zip' name of the raw directory matches the scene
\* pattern, a call extracts exactly the archives whose scene identifier is no
\* entry of the destination directory when the call begins, each once, and
\* no other file; so a call after one whose extractions created the entries
\* named by the identifiers extracts nothing.
C12_ExtractsExactlyTheMissingScenes ==
    (/\ uz_in.inputdir # <<>>
     /\ \A n \in ZipNames : SceneInName(n) # NoMatch)
        => LET missing == {n \in ZipNames : SceneInName(n) \notin uz_at_call}
           IN  /\ uz_pc # "raised"
               /\ uz_pc \in {"extract", "returned"}
                    => /\ \A k \in 1..Len(uz_log) : uz_log[k] \in missing
                       /\ \A j, k \in 1..Len(uz_log) : j # k => uz_log[j] # uz_log[k]
               /\ uz_pc = "returned" => {uz_log[k] : k \in 1..Len(uz_log)} = missing

\* C13: when the raw directory holds a '.zip' file whose name does not match
\* the scene pattern, the call raises, and extracts nothing.
C13_UnmatchedZipRaises ==
    (/\ uz_in.inputdir # <<>>
     /\ \E n \in ZipNames : SceneInName(n) = NoMatch
     /\ uz_pc # "call")
        => uz_pc = "raised" /\ uz_log = <<>>

(***************************************************************************)
(* dtSat.get_copernicus_access_token                                       *)
(***************************************************************************)

\* refresh_token: None, "" or a token; only the last is truthy (line 36).
RefreshTokenArgs == {"None", "", "rt"}
Truthy(refresh_token) == refresh_token \notin {"None", ""}

\* Lines 36-49: the form data of the request.
GrantData(in) ==
    IF Truthy(in.refresh_token)
    THEN [client_id |-> "cdse-public", grant_type |-> "refresh_token",
          refresh_token |-> in.refresh_token]
    ELSE [client_id |-> "cdse-public", username |-> in.username,
          password |-> in.password, grant_type |-> "password"]

\* What requests.post gives: no response at all (it raises; status 0), or a
\* status with a body that is a token JSON, an error JSON, or no JSON.
TokenStatuses == {200, 302, 400, 401, 500}
TokenBodies == {"token", "error", "text"}
NoTokenResponse == [status |-> 0, body |-> "text"]
TokenResponses == {NoTokenResponse} \cup [status : TokenStatuses, body : TokenBodies]

\* r.raise_for_status(): HTTPError for a 4xx or 5xx status.
RaiseForStatusServerOnly(status) == 500 <= status /\ status < 600
RaiseForStatus(status) == 400 <= status /\ status < 600

\* r.json() raises on a body that is no JSON.
JsonRaises(response) == response.body = "text"

\* ./.copernicus_token.json before the call: absent, or an earlier token.
TokenFilesBefore == {"absent", "old"}

InitToken ==
    /\ tk_in \in [username : {"u"}, password : {"p"}, refresh_token : RefreshTokenArgs,
                  storage_refresh_token : BOOLEAN, response : TokenResponses,
                  file0 : TokenFilesBefore]
    /\ tk_pc = "post"
    /\ tk_requests = <<>>
    /\ tk_file = tk_in.file0
    /\ tk_ret = "unset"
    /\ CatParked /\ DlParked /\ FsParked /\ BatchParked /\ UnzipParked /\ FilterParked

\* Lines 50-54: requests.post(url, data=data).  When it raises, the handler
\* of line 56 reads r, which is not bound, and raises in turn.
TokenPost ==
    /\ tk_pc = "post"
    /\ tk_requests' = Append(tk_requests, GrantData(tk_in))
    /\ tk_pc' = IF tk_in.response = NoTokenResponse THEN "raised" ELSE "posted"
    /\ UNCHANGED <<tk_in, tk_file, tk_ret, nottoken>>

\* Lines 55-59: r.raise_for_status(); every exception becomes an Exception
\* (or the error of r.json() in the handler).
TokenRaiseForStatus ==
    /\ tk_pc = "posted"
    /\ tk_pc' = IF RaiseForStatus(tk_in.response.status) THEN "raised" ELSE "ok"
    /\ UNCHANGED <<tk_in, tk_requests, tk_file, tk_ret, nottoken>>

\* Lines 61-63: open(..., "w") empties the file, then json.dump(r.json(), f).
TokenStore ==
    /\ tk_pc = "ok"
    /\ IF tk_in.storage_refresh_token
       THEN IF JsonRaises(tk_in.response)
            THEN tk_file' = "empty" /\ tk_pc' = "raised"
            ELSE tk_file' = tk_in.response.body /\ tk_pc' = "stored"
       ELSE tk_file' = tk_file /\ tk_pc' = "stored"
    /\ UNCHANGED <<tk_in, tk_requests, tk_ret, nottoken>>

\* Line 64: return r.json()
TokenReturn ==
    /\ tk_pc = "stored"
    /\ IF JsonRaises(tk_in.response)
       THEN tk_ret' = tk_ret /\ tk_pc' = "raised"
       ELSE tk_ret' = tk_in.response.body /\ tk_pc' = "returned"
    /\ UNCHANGED <<tk_in, tk_requests, tk_file, nottoken>>

NextToken == TokenPost \/ TokenRaiseForStatus \/ TokenStore \/ TokenReturn

SpecToken == InitToken /\ [][NextToken]_vars

(***************************************************************************)
(* Claims about get_copernicus_access_token.                               *)
(***************************************************************************)

\* One request per call, of the grant the arguments ask for.
C15_OneRequestOfTheGrant ==
    /\ Len(tk_requests) <= 1
    /\ tk_pc # "post" => Len(tk_requests) = 1
    /\ \A k \in 1..Len(tk_requests) :
         IF tk_in.refresh_token = "rt"
         THEN /\ tk_requests[k].grant_type = "refresh_token"
              /\ tk_requests[k].refresh_token = "rt"
         ELSE /\ tk_requests[k].grant_type = "password"
              /\ tk_requests[k].username = tk_in.username
              /\ tk_requests[k].password = tk_in.password

C15_Success(status) == 200 <= status /\ status < 300
C15_ClientOrServerError(status) == 400 <= status /\ status < 600

\* C15 (as claimed): one token request per call, of the refresh-token grant
\* when a refresh token is given and of the password grant otherwise; on a
\* status that is not a success the call raises, returns nothing and leaves
\* the token file alone; the file is written only after a success with
\* storage_refresh_token set.
C15_NonSuccessRaises ==
    /\ C15_OneRequestOfTheGrant
    /\ (tk_in.response.status # 0 /\ ~C15_Success(tk_in.response.status))
          => /\ tk_pc \in {"post", "posted", "raised"}
             /\ tk_ret = "unset"
             /\ tk_file = tk_in.file0
    /\ tk_file # tk_in.file0
          => C15_Success(tk_in.response.status) /\ tk_in.storage_refresh_token

\* C15 (amended): the statuses on which the call raises are the 4xx and 5xx
\* ones (and a request that fails outright); the file is written only when
\* the status is none of these and storage_refresh_token is set.
C15_ErrorStatusRaises ==
    /\ C15_OneRequestOfTheGrant
    /\ (tk_in.response.status = 0 \/ C15_ClientOrServerError(tk_in.response.status))
          => /\ tk_pc \in {"post", "posted", "raised"}
             /\ tk_ret = "unset"
             /\ tk_file = tk_in.file0
    /\ tk_file # tk_in.file0
          => /\ tk_in.response.status # 0
             /\ ~C15_ClientOrServerError(tk_in.response.status)
             /\ tk_in.storage_refresh_token
    /\ tk_pc = "returned"
          => /\ tk_ret = tk_in.response.body
             /\ tk_in.storage_refresh_token => tk_file = tk_in.response.body

C15_Witness ==
    /\ tk_pc = "raised"
    /\ tk_in.response.status = 401
    /\ tk_in.storage_refresh_token
    /\ tk_in.refresh_token = "rt"
    /\ Len(tk_requests) = 1
    /\ tk_requests[1].grant_type = "refresh_token"
    /\ tk_file = "old"
    /\ tk_ret = "unset"

(***************************************************************************)
(* dtSat.extract_orbit, extract_tile, filter_by_orbit,                     *)
(* filter_by_orbit_and_tile                                                *)
(***************************************************************************)

Digits == {"0", "1", "2", "3", "4", "5", "6", "7", "8", "9"}
UpperLetters == {"A", "B", "C", "D", "E", "F", "G", "H", "I", "J", "K", "L", "M",
                 "N", "O", "P", "Q", "R", "S", "T", "U", "V", "W", "X", "Y", "Z"}

\* The number of digits of s from position k on, up to the first non-digit.
DigitRun(s, k) ==
    Greatest({n \in 0..(Len(s) - k + 1) : \A j \in k..(k + n - 1) : s[j] \in Digits})

\* extract_orbit(x) = re.search("R[0-9]*", x).group(0): the leftmost "R" and the digits right after it,
\* if any; NoMatch where .group(0) raises because nothing matched.
extract_orbit(x) ==
    LET starts == {k \in 1..Len(x) : x[k] = "R"}
        a == Least(starts)
    IN  IF starts = {} THEN NoMatch ELSE SubSeq(x, a, a + DigitRun(x, a + 1))

\* extract_tile(x) = re.search("T[0-9]{2}[A-Z]{3}", x).group(0), or NoMatch.
extract_tile(x) ==
    LET starts == {k \in 1..(Len(x) - 5) :
                      /\ x[k] = "T"
                      /\ x[k + 1] \in Digits /\ x[k + 2] \in Digits
                      /\ x[k + 3] \in UpperLetters /\ x[k + 4] \in UpperLetters
                      /\ x[k + 5] \in UpperLetters}
    IN  IF starts = {} THEN NoMatch ELSE SubSeq(x, Least(starts), Least(starts) + 5)

\* a in b, for strings
InString(a, b) == Occurrences(b, a) # {}

\* The name of the docstrings' kind,
\* "S2A_MSIL1C_20220601T103629_N0400_R108_T31UFU".
NameExample ==
    <<"S", "2", "A", "_", "M", "S", "I", "L", "1", "C", "_", "2", "0", "2",
      "2", "0", "6", "0", "1", "T", "1", "0", "3", "6", "2", "9", "_", "N",
      "0", "4", "0", "0", "_", "R", "1", "0", "8", "_", "T", "3", "1", "U",
      "F", "U">>
OrbitR108 == <<"R", "1", "0", "8">>
TileUFU == <<"T", "3", "1", "U", "F", "U">>

\* Product names: the example; short ones of the same build,
\* "S2A_R10_T31UFU", "S2A_R108_T31UFU", "S2A_R108_T31UFV"; one of the older
\* naming with OPER before the orbit, "S2A_OPER_R108_T31UFU"; and one without
\* orbit and tile, "LC08_L1TP".
ProductNames ==
    {NameExample,
     <<"S", "2", "A", "_", "R", "1", "0", "_", "T", "3", "1", "U", "F", "U">>,
     <<"S", "2", "A", "_", "R", "1", "0", "8", "_", "T", "3", "1", "U", "F", "U">>,
     <<"S", "2", "A", "_", "R", "1", "0", "8", "_", "T", "3", "1", "U", "F", "V">>,
     <<"S", "2", "A", "_", "O", "P", "E", "R", "_", "R", "1", "0", "8", "_",
       "T", "3", "1", "U", "F", "U">>,
     <<"L", "C", "0", "8", "_", "L", "1", "T", "P">>}

\* orbit: "R108", "R10", "R051"; tile: "T31UFU", "T31UFV".
OrbitArgs == {OrbitR108, <<"R", "1", "0">>, <<"R", "0", "5", "1">>}
TileArgs == {TileUFU, <<"T", "3", "1", "U", "F", "V">>}

MaxValue == 2

\* A catalogue response: the entries' Ids are their positions; the next link
\* is there or not.
CatalogueOf(ns, link) ==
    LET value == [k \in 1..Len(ns) |-> [Id |-> k, Name |-> ns[k]]]
    IN  IF link THEN [context |-> "$metadata#Products", value |-> value, nextLink |-> "next"]
        ELSE [context |-> "$metadata#Products", value |-> value]

FilterCatalogues ==
    {CatalogueOf(ns, link) : ns \in SeqsUpTo(ProductNames, MaxValue), link \in BOOLEAN}

\* Line 374: does extract_orbit(...) in orbit raise for entry i / hold for it.
OrbitRaises(x, i) == extract_orbit(x.value[i].Name) = NoMatch
OrbitKeeps(x, orbit, i) == InString(extract_orbit(x.value[i].Name), orbit)

\* Line 398: the tile test is reached only for an entry the orbit test kept.
TileRaises(x, orbit, i) ==
    OrbitKeeps(x, orbit, i) /\ extract_tile(x.value[i].Name) = NoMatch
TileKeeps(x, tile, i) == InString(extract_tile(x.value[i].Name), tile)

\* The elements of a set of positions, in ascending order.
RECURSIVE Ascending(_)
Ascending(S) == IF S = {} THEN <<>> ELSE <<Least(S)>> \o Ascending(S \ {Least(S)})

\* Lines 375-387 and 399-411: the value built from idx.
NoMapping == [context |-> "", value |-> <<>>, nextLink |-> ""]
Filtered(x, idx, name_only) ==
    IF name_only
    THEN [kind |-> "names", names |-> [k \in 1..Len(idx) |-> x.value[idx[k]].Name],
          mapping |-> NoMapping]
    ELSE [kind |-> "mapping", names |-> <<>>,
          mapping |-> [context |-> x.context,
                       value |-> [k \in 1..Len(idx) |-> x.value[idx[k]]],
                       nextLink |-> IF "nextLink" \in DOMAIN x THEN x.nextLink ELSE ""]]
FilterRaised == [kind |-> "raised", names |-> <<>>, mapping |-> NoMapping]

\* filter_by_orbit(x, orbit, name_only)
filter_by_orbit(x, orbit, name_only) ==
    IF \E i \in 1..Len(x.value) : OrbitRaises(x, i) THEN FilterRaised
    ELSE Filtered(x, Ascending({i \in 1..Len(x.value) : OrbitKeeps(x, orbit, i)}), name_only)

\* filter_by_orbit_and_tile(x, orbit, tile, name_only)
filter_by_orbit_and_tile(x, orbit, tile, name_only) ==
    IF \E i \in 1..Len(x.value) : OrbitRaises(x, i) \/ TileRaises(x, orbit, i)
    THEN FilterRaised
    ELSE Filtered(x, Ascending({i \in 1..Len(x.value) :
                                   OrbitKeeps(x, orbit, i) /\ TileKeeps(x, tile, i)}),
                  name_only)

NoFilterReturn == [op |-> "none", orbit |-> NoMatch, tile |-> NoMatch, res |-> FilterRaised]

InitFilter ==
    /\ fl_in \in [x : FilterCatalogues, orbit : OrbitArgs, tile : TileArgs,
                  name_only : BOOLEAN, name : ProductNames]
    /\ fl_pc = "call"
    /\ fl_ret = NoFilterReturn
    /\ CatParked /\ DlParked /\ FsParked /\ BatchParked /\ UnzipParked /\ TokenParked

\* extract_orbit(name) and extract_tile(name)
FilterExtract ==
    /\ fl_pc = "call"
    /\ fl_pc' = "done"
    /\ fl_ret' = [op |-> "extract", orbit |-> extract_orbit(fl_in.name),
                  tile |-> extract_tile(fl_in.name), res |-> FilterRaised]
    /\ UNCHANGED <<fl_in, notfilter>>

FilterByOrbit ==
    /\ fl_pc = "call"
    /\ fl_pc' = "done"
    /\ fl_ret' = [op |-> "filter_by_orbit", orbit |-> NoMatch, tile |-> NoMatch,
                  res |-> filter_by_orbit(fl_in.x, fl_in.orbit, fl_in.name_only)]
    /\ UNCHANGED <<fl_in, notfilter>>

FilterByOrbitAndTile ==
    /\ fl_pc = "call"
    /\ fl_pc' = "done"
    /\ fl_ret' = [op |-> "filter_by_orbit_and_tile", orbit |-> NoMatch, tile |-> NoMatch,
                  res |-> filter_by_orbit_and_tile(fl_in.x, fl_in.orbit, fl_in.tile,
                                                   fl_in.name_only)]
    /\ UNCHANGED <<fl_in, notfilter>>

NextFilter == FilterExtract \/ FilterByOrbit \/ FilterByOrbitAndTile

SpecFilter == InitFilter /\ [][NextFilter]_vars

(***************************************************************************)
(* Claims about the filtering utilities.                                   *)
(***************************************************************************)

\* The positions of the entries whose extracted orbit is the given orbit
\* (and, with a tile, whose extracted tile is the given tile), ascending.
C16_Matching(x, orbit, tile, with_tile) ==
    Ascending({i \in 1..Len(x.value) :
                  /\ extract_orbit(x.value[i].Name) = orbit
                  /\ with_tile => extract_tile(x.value[i].Name) = tile})

\* What the claim says is returned for these positions.
C16_Returned(x, idx, name_only, res) ==
    IF name_only
    THEN res.kind = "names" /\ res.names = [k \in 1..Len(idx) |-> x.value[idx[k]].Name]
    ELSE /\ res.kind = "mapping"
         /\ res.mapping.context = x.context
         /\ res.mapping.value = [k \in 1..Len(idx) |-> x.value[idx[k]]]
         /\ res.mapping.nextLink = IF "nextLink" \in DOMAIN x THEN x.nextLink ELSE ""

\* Every entry has an orbit and a tile to extract.
C16_AllExtractable ==
    \A i \in 1..Len(fl_in.x.value) :
        /\ extract_orbit(fl_in.x.value[i].Name) # NoMatch
        /\ extract_tile(fl_in.x.value[i].Name) # NoMatch

\* C16: filter_by_orbit returns, in catalogue order, exactly the entries whose
\* extracted orbit equals the given orbit, and filter_by_orbit_and_tile those
\* whose orbit and tile both equal the given ones; an entry of another orbit
\* (R10 when R108 is asked for) is not returned.  name_only gives the names,
\* otherwise the mapping with the context, the value and the next link.
C16_FilterKeepsExactlyEqualOrbit ==
    C16_AllExtractable
        => /\ fl_ret.op = "filter_by_orbit"
                => C16_Returned(fl_in.x,
                                C16_Matching(fl_in.x, fl_in.orbit, fl_in.tile, FALSE),
                                fl_in.name_only, fl_ret.res)
           /\ fl_ret.op = "filter_by_orbit_and_tile"
                => C16_Returned(fl_in.x,
                                C16_Matching(fl_in.x, fl_in.orbit, fl_in.tile, TRUE),
                                fl_in.name_only, fl_ret.res)

\* The leftmost "R" with at least one digit after it, and those digits.
C17_OrbitField(x) ==
    LET starts == {k \in 1..(Len(x) - 1) : x[k] = "R" /\ x[k + 1] \in Digits}
        a == Least(starts)
    IN  IF starts = {} THEN NoMatch ELSE SubSeq(x, a, a + DigitRun(x, a + 1))

\* C17: for a name with an orbit field ("R" and digits) and a tile field ("T",
\* two digits, three capitals), extract_orbit returns the leftmost orbit field
\* and extract_tile the leftmost tile field; the example name gives R108 and
\* T31UFU, not the T103629 of its timestamp.
C17_ExtractReturnsTheFields ==
    (/\ fl_ret.op = "extract"
     /\ C17_OrbitField(fl_in.name) # NoMatch
     /\ extract_tile(fl_in.name) # NoMatch)
        => /\ fl_ret.orbit = C17_OrbitField(fl_in.name)
           /\ fl_ret.tile = extract_tile(fl_in.name)
           /\ fl_in.name = NameExample
                => fl_ret.orbit = OrbitR108 /\ fl_ret.tile = TileUFU

====
